---- MODULE Spec2Model ----
(***************************************************************************)
(* Drishti frontend: the zustand store (stores/useStore.ts), the map view  *)
(* (components/MapView.tsx), the sidebar (components/Sidebar.tsx) and the  *)
(* header (components/Header.tsx), together with the HTTP backend they     *)
(* talk to through api/client.ts.                                          *)
(*                                                                         *)
(* The pipeline services of the backend that are not part of the frontend  *)
(* (ReferenceDataClient, TileCache, ComparisonEngine) are modelled on their *)
(* own, each with its own specification.                                   *)
(*                                                                         *)
(* Every asynchronous store function is a task: a request is "sent", the   *)
(* backend handles it (phase "ok" or "err", with the reply it computed at  *)
(* that moment), and the awaiting continuation of the store function runs  *)
(* when the reply is delivered.  A React effect runs in the step of the    *)
(* state change that triggers it.                                          *)
(***************************************************************************)
EXTENDS Integers, Sequences, FiniteSets, Bags, TLC

\* ------------------------------------------------------------------ bounds
MaxTasks == 2
MaxRuns == 2
MaxDetect == 1
MaxSide == 2
MaxLookups == 2
MaxRequests == 3
MaxPlots == 2

\* ------------------------------------------------------------------ values
None == <<>>
Some(x) == <<x>>
IsSome(o) == o # <<>>
Val(o) == o[1]

Areas == {"URLA", "SILTARA"}
Extents == {<<"viewport">>}
ZeroBbox == <<"zero">>

VARIABLES
  store,        \* the zustand store (useStore.ts), one field per state field
  view,         \* App's promptMode and the layers of MapView
  srvProjects, srvComparisons, srvRuns, srvCompRuns,   \* the backend
  tasks,        \* the requests in flight, a bag of tasks
  refClient,    \* ReferenceDataClient: one lookup and the boundary cache
  tileCache,    \* TileCache: the cached composites and the fetches made
  engine        \* ComparisonEngine: the case or the plot sets it works on

pipelineVars == <<refClient, tileCache, engine>>
clientVars == <<store, view, srvProjects, srvComparisons, srvRuns, srvCompRuns, tasks>>
srvVars == <<srvProjects, srvComparisons, srvRuns, srvCompRuns, pipelineVars>>
vars == <<store, view, srvVars, tasks>>

\* ------------------------------------------------------------------ tasks
\* One request of api/client.ts and the store function awaiting it.
Task(op, cont, pid, plot, arg) ==
  [op |-> op, cont |-> cont, phase |-> "sent", pid |-> pid, plot |-> plot,
   arg |-> arg, reply |-> None, cancelled |-> FALSE]

\* The requests in flight: b is a bag of tasks, no order among them.
HasFree(b) == BagCardinality(b) < MaxTasks
Spawn(b, task) == b (+) SetToBag({task})
Drop(b, t) == b (-) SetToBag({t})
Replace(b, t, u) == Spawn(Drop(b, t), u)
InFlight == BagToSet(tasks)
Pending(ops) ==
  BagCardinality([t \in {u \in InFlight : u.op \in ops} |-> CopiesIn(t, tasks)])

\* ------------------------------------------------------------------ backend
\* GeodeticMeasurer: a plot is a rectangle of w by h cells; an edit changes w.
AreaSqm(g) == g[1] * g[2]
PerimeterM(g) == 2 * (g[1] + g[2])
Geoms == (1..MaxSide) \X {1}
NewGeom == <<1, 1>>
Plot(id, g) == [id |-> id, geometry |-> g, area_sqm |-> AreaSqm(g),
                perimeter_m |-> PerimeterM(g), is_active |-> TRUE]
PlotId(run, i) == (run - 1) * MaxDetect + i
DetectedPlots(run, n) == {Plot(PlotId(run, i), NewGeom) : i \in 1..n}

SrvProject(pid) == srvProjects[pid]
SrvHas(pid) == pid \in 1..Len(srvProjects)

\* POST /api/detect/auto: creates the project when the request names none, and
\* stores the plot set of the run in one transaction.
SrvAutoDetect(t, n) ==
  LET run == srvRuns + 1
      plots == DetectedPlots(run, n)
      pid == IF t.pid = 0 THEN Len(srvProjects) + 1 ELSE t.pid
      proj == IF t.pid = 0
                THEN [id |-> pid, area_name |-> t.arg.area, bbox |-> t.arg.bbox,
                      plots |-> plots]
                ELSE [SrvProject(pid) EXCEPT !.plots = plots]
  IN /\ srvRuns < MaxRuns
     /\ t.pid = 0 \/ SrvHas(t.pid)
     /\ srvRuns' = run
     /\ srvProjects' = IF t.pid = 0 THEN Append(srvProjects, proj)
                       ELSE [srvProjects EXCEPT ![pid] = proj]
     /\ UNCHANGED <<srvComparisons, srvCompRuns, pipelineVars>>

\* POST /api/detect/prompt: adds the plots found at the prompt to the project.
SrvPromptDetect(t, n) ==
  LET run == srvRuns + 1
  IN /\ srvRuns < MaxRuns
     /\ SrvHas(t.pid)
     /\ srvRuns' = run
     /\ srvProjects' = [srvProjects EXCEPT
                          ![t.pid].plots = @ \cup DetectedPlots(run, n)]
     /\ UNCHANGED <<srvComparisons, srvCompRuns, pipelineVars>>

\* PUT /api/projects/{id}/plots/{plot_id} with a geometry: area and perimeter are
\* recomputed for the new geometry.
SrvUpdateGeometry(t) ==
  /\ SrvHas(t.pid)
  /\ \E p \in SrvProject(t.pid).plots : p.id = t.plot
  /\ srvProjects' = [srvProjects EXCEPT ![t.pid].plots =
                       {IF p.id = t.plot
                          THEN [Plot(p.id, t.arg) EXCEPT !.is_active = p.is_active]
                          ELSE p : p \in @}]
  /\ UNCHANGED <<srvComparisons, srvRuns, srvCompRuns, pipelineVars>>

\* PUT /api/projects/{id}/plots/{plot_id} with a label or a colour: the plot
\* keeps its geometry, area and perimeter.
SrvUpdateLabel(t) ==
  /\ SrvHas(t.pid)
  /\ \E p \in SrvProject(t.pid).plots : p.id = t.plot
  /\ UNCHANGED srvVars

\* DELETE /api/projects/{id}/plots/{plot_id}: the plot is deactivated (soft
\* delete, its row stays among the plots of the project with is_active
\* false) or its row is removed.
SrvDeletePlot(t, soft) ==
  /\ SrvHas(t.pid)
  /\ \E p \in SrvProject(t.pid).plots : p.id = t.plot /\ p.is_active
  /\ srvProjects' = [srvProjects EXCEPT ![t.pid].plots =
       IF soft
         THEN {IF p.id = t.plot THEN [p EXCEPT !.is_active = FALSE] ELSE p : p \in @}
         ELSE {p \in @ : p.id # t.plot}]
  /\ UNCHANGED <<srvComparisons, srvRuns, srvCompRuns, pipelineVars>>

\* POST /api/compare/{project_id}: one deviation per plot of the project; the
\* rows of the earlier run are replaced by those of this run.
DeviationKinds == {"COMPLIANT", "ENCROACHMENT"}
Deviation(run, p, kind) ==
  [id |-> <<run, p.id>>, plot_id |-> p.id, deviation_type |-> kind,
   deviation_geometry |-> IF kind = "COMPLIANT" THEN None ELSE Some(p.geometry)]
\* The aggregate counts of a comparison.  Every detected plot of the model
\* is matched; UnmatchedRefPlots reference plots stay without a partner
\* although a detected plot overlaps them (below the minimum IoU), so
\* they are unmatched and not vacant.
UnmatchedRefPlots == 1
SummaryFields ==
  {"total_detected", "total_basemap", "compliant", "encroachment",
   "boundary_mismatch", "vacant", "unauthorized", "unmatched_detected",
   "unmatched_basemap"}
Summary(plots, kind) ==
  LET n == Cardinality(plots)
  IN [f \in SummaryFields |->
        CASE f = "total_detected" -> n
          [] f = "total_basemap" -> n + UnmatchedRefPlots
          [] f = "compliant" -> IF kind = "COMPLIANT" THEN n ELSE 0
          [] f = "encroachment" -> IF kind = "ENCROACHMENT" THEN n ELSE 0
          [] f = "unmatched_basemap" -> UnmatchedRefPlots
          [] OTHER -> 0]
ComparisonOf(run, plots, kind) ==
  [run |-> run, summary |-> Summary(plots, kind),
   deviations |-> {Deviation(run, p, kind) : p \in plots}]
SrvRunComparison(t, kind) ==
  /\ srvCompRuns < MaxRuns
  /\ SrvHas(t.pid)
  /\ srvCompRuns' = srvCompRuns + 1
  /\ srvComparisons' = [srvComparisons EXCEPT ![t.pid] =
        Some(ComparisonOf(srvCompRuns + 1,
                          {p \in SrvProject(t.pid).plots : p.is_active}, kind))]
  /\ UNCHANGED <<srvProjects, srvRuns, pipelineVars>>

\* What the backend answers, read from its state after it handled the request.
ReplyOf(t) ==
  CASE t.op = "autoDetect" ->
         [project_id |-> IF t.pid = 0 THEN Len(srvProjects') ELSE t.pid]
    [] t.op = "promptDetect" -> [project_id |-> t.pid]
    [] t.op = "fetchProject" -> srvProjects'[t.pid]
    [] t.op = "runComparison" -> Val(srvComparisons'[t.pid])
    [] t.op = "fetchAreaBoundary" -> [name |-> t.arg]
    [] t.op = "fetchReferencePlots" -> [area_name |-> t.arg]
    [] OTHER -> [done |-> TRUE]

\* The backend handles request s and answers it.
ServerOk(t) ==
  /\ t.phase = "sent"
  /\ CASE t.op = "autoDetect" -> \E n \in 1..MaxDetect : SrvAutoDetect(t, n)
       [] t.op = "promptDetect" -> \E n \in 1..MaxDetect : SrvPromptDetect(t, n)
       [] t.op = "updatePlot" -> SrvUpdateGeometry(t)
       [] t.op = "deletePlot" -> \E soft \in BOOLEAN : SrvDeletePlot(t, soft)
       [] t.op = "updateLabel" -> SrvUpdateLabel(t)
       [] t.op = "runComparison" -> \E k \in DeviationKinds : SrvRunComparison(t, k)
       [] t.op = "fetchProject" -> SrvHas(t.pid) /\ UNCHANGED srvVars
       [] OTHER -> UNCHANGED srvVars
  /\ tasks' = Replace(tasks, t, [t EXCEPT !.phase = "ok", !.reply = Some(ReplyOf(t))])
  /\ UNCHANGED <<store, view>>

\* The backend rejects request s (an error status), or the request never
\* reaches it: nothing is stored.
ServerErr(t) ==
  /\ t.phase = "sent"
  /\ tasks' = Replace(tasks, t, [t EXCEPT !.phase = "err"])
  /\ UNCHANGED <<store, view, srvVars>>

\* The answer to request s is lost or times out after the backend handled it:
\* fetch() rejects, request() throws (api/client.ts).
ReplyLost(t) ==
  /\ t.phase = "ok"
  /\ tasks' = Replace(tasks, t, [t EXCEPT !.phase = "err", !.reply = None])
  /\ UNCHANGED <<store, view, srvVars>>

\* ------------------------------------------------------------------ pipeline
\* ReferenceDataClient: the lookup strategies, in the order they are tried.
Strategies == <<"exact", "fuzzy", "bbox", "legacy">>
StrategyNames == {Strategies[i] : i \in 1..Len(Strategies)}
ReferenceNotFound == [kind |-> "ReferenceNotFound"]
Found(area, by) == [kind |-> "Found", area |-> area, by |-> by]

\* A lookup chain that starts from the last strategy.
StrategyAtReversed(n) == Strategies[Len(Strategies) + 1 - n]

\* The n-th strategy of the chain.
StrategyAt(n) == Strategies[n]

\* No lookup is running and nothing is cached; finds[a] is the set of
\* strategies that find area a in the reference source.
IdleRefClient(finds) ==
  [finds |-> finds, cache |-> {}, lookups |-> 0, area |-> None,
   attempts |-> <<>>, result |-> None, served |-> "none"]

\* A lookup of area a starts: a cached result is returned as it is, otherwise
\* the chain starts with nothing attempted.
StartLookup(a) ==
  /\ refClient.lookups < MaxLookups
  /\ refClient.area = None \/ IsSome(refClient.result)
  /\ refClient' =
       IF \E c \in refClient.cache : c.area = a
         THEN [refClient EXCEPT
                 !.lookups = @ + 1, !.area = Some(a), !.attempts = <<>>,
                 !.result = Some(CHOOSE c \in refClient.cache : c.area = a),
                 !.served = "cache"]
         ELSE [refClient EXCEPT
                 !.lookups = @ + 1, !.area = Some(a), !.attempts = <<>>,
                 !.result = None, !.served = "chain"]
  /\ UNCHANGED <<clientVars, tileCache, engine>>

\* The next strategy of the chain is attempted: on success the chain stops and
\* the result is cached; after the last strategy has failed the result is
\* ReferenceNotFound, which is not cached.
AttemptStrategy ==
  LET a == Val(refClient.area)
      n == Len(refClient.attempts) + 1
      s == StrategyAt(n)
  IN /\ IsSome(refClient.area) /\ refClient.result = None
     /\ n <= Len(Strategies)
     /\ refClient' =
          IF s \in refClient.finds[a]
            THEN [refClient EXCEPT !.attempts = Append(@, s),
                                   !.result = Some(Found(a, s)),
                                   !.cache = @ \cup {Found(a, s)}]
          ELSE IF n = Len(Strategies)
            THEN [refClient EXCEPT !.attempts = Append(@, s),
                                   !.result = Some(ReferenceNotFound)]
          ELSE [refClient EXCEPT !.attempts = Append(@, s)]
     /\ UNCHANGED <<clientVars, tileCache, engine>>

\* TileCache: composites are keyed by bounding box and zoom level.
TileKeys == {"bboxA", "bboxB"} \X {17, 18}
EmptyTileCache ==
  [cached |-> {}, requests |-> [k \in TileKeys |-> 0],
   fetches |-> [k \in TileKeys |-> 0], errors |-> [k \in TileKeys |-> 0]]

\* A cache that never finds a composite.
CacheMiss(tc, k) == FALSE

\* The composite of key k is in the cache.
CacheHit(tc, k) == k \in tc.cached

TotalRequests(tc) ==
  LET RECURSIVE Sum(_)
      Sum(ks) == IF ks = {} THEN 0
                 ELSE LET k == CHOOSE x \in ks : TRUE
                      IN tc.requests[k] + Sum(ks \ {k})
  IN Sum(TileKeys)

\* The composite of key k is requested: a cached composite is returned without
\* a fetch; otherwise the tiles are fetched, and the composite is cached when
\* the fetch succeeds and nothing is cached when it ends in a FetchError.
RequestComposite(k, outcome) ==
  /\ TotalRequests(tileCache) < MaxRequests
  /\ IF CacheHit(tileCache, k)
       THEN /\ outcome = "ok"
            /\ tileCache' = [tileCache EXCEPT !.requests[k] = @ + 1]
       ELSE tileCache' =
              [tileCache EXCEPT
                 !.requests[k] = @ + 1,
                 !.fetches[k] = @ + 1,
                 !.errors[k] = IF outcome = "FetchError" THEN @ + 1 ELSE @,
                 !.cached = IF outcome = "ok" THEN @ \cup {k} ELSE @]
  /\ UNCHANGED <<clientVars, refClient, engine>>

IdleEngine == [mode |-> "idle"]

\* ComparisonEngine, classification.  A case is a matched pair, a reference
\* plot without a detected plot, or a detected plot without a reference plot;
\* areas are in square metres.
TolSqm == 2
Rules == <<"COMPLIANT", "ENCROACHMENT", "BOUNDARY_MISMATCH", "VACANT",
           "UNAUTHORIZED_DEVELOPMENT">>
RuleMatches(i, c) ==
  CASE i = 1 -> c.kind = "pair" /\ c.symdiff <= TolSqm
    [] i = 2 -> c.kind = "pair" /\ c.excess > TolSqm
    [] i = 3 -> c.kind = "pair" /\ c.symdiff > TolSqm
    [] i = 4 -> c.kind = "reference_only"
    [] i = 5 -> c.kind = "detected_only" /\ ~c.covered

\* Severity bands that put 25 to 30 per cent in medium.
SeverityShifted(part, whole) ==
  IF part * 100 < 10 * whole THEN "low"
  ELSE IF part * 100 <= 30 * whole THEN "medium"
  ELSE IF part * 100 <= 50 * whole THEN "high"
  ELSE "critical"

\* The severity of part as a fraction of whole: below 10 per cent low, up to 25
\* medium, up to 50 high, above critical.
Severity(part, whole) ==
  IF part * 100 < 10 * whole THEN "low"
  ELSE IF part * 100 < 25 * whole THEN "medium"
  ELSE IF part * 100 <= 50 * whole THEN "high"
  ELSE "critical"

\* The rules are tried from rule i on; 0 when none matches.
RECURSIVE FirstMatch(_, _)
FirstMatch(c, i) ==
  IF i > Len(Rules) THEN 0
  ELSE IF RuleMatches(i, c) THEN i
  ELSE FirstMatch(c, i + 1)

Classify(c) ==
  LET i == FirstMatch(c, 1)
  IN IF i = 0 THEN None
     ELSE Some([deviation_type |-> Rules[i],
                severity |-> CASE Rules[i] = "ENCROACHMENT" -> Severity(c.excess, c.refArea)
                               [] Rules[i] = "BOUNDARY_MISMATCH" -> Severity(c.symdiff, c.refArea)
                               [] OTHER -> "low"])

\* The cases: excess is the detected area beyond the reference plot, short the
\* reference area the detected plot leaves uncovered; together they are the
\* symmetric difference.
RefAreas == {200, 1000}
ExcessAreas == {0, 1, 3, 20, 50, 99, 100, 101, 249, 250, 251, 300, 499, 500, 501, 1000}
ShortAreas == {0, 1, 3, 300}
Cases ==
  {[kind |-> "pair", refArea |-> r, excess |-> e, symdiff |-> e + m, covered |-> TRUE] :
     r \in RefAreas, e \in ExcessAreas, m \in ShortAreas}
  \cup {[kind |-> k, refArea |-> r, excess |-> 0, symdiff |-> 0, covered |-> b] :
          k \in {"reference_only", "detected_only"}, r \in RefAreas, b \in BOOLEAN}

ClassifyCase ==
  /\ engine.mode = "classify" /\ ~engine.classified
  /\ engine' = [engine EXCEPT !.classified = TRUE, !.deviation = Classify(engine.case)]
  /\ UNCHANGED <<clientVars, refClient, tileCache>>

\* ComparisonEngine, matching.  Plots are named by their ids, overlap is the
\* intersection-over-union in per cent.
MinIoU == 30
IoULevels == {20, 50, 80}
PlotIds == 1..MaxPlots
Pairs == PlotIds \X PlotIds

\* An order of the candidate pairs that breaks ties by the higher id.
BeforeHigherId(iou, p, q) ==
  \/ iou[p] > iou[q]
  \/ iou[p] = iou[q] /\ (p[1] > q[1] \/ (p[1] = q[1] /\ p[2] > q[2]))

\* Pair p of (detected id, reference id) is taken before pair q: descending
\* intersection-over-union, ties by the lower id.
Before(iou, p, q) ==
  \/ iou[p] > iou[q]
  \/ iou[p] = iou[q] /\ (p[1] < q[1] \/ (p[1] = q[1] /\ p[2] < q[2]))

RECURSIVE SortPairs(_, _)
SortPairs(iou, ps) ==
  IF ps = {} THEN <<>>
  ELSE LET first == CHOOSE p \in ps : \A q \in ps \ {p} : Before(iou, p, q)
       IN <<first>> \o SortPairs(iou, ps \ {first})

\* The next candidate pair is taken: it is skipped when its overlap is below the
\* minimum or one of its sides has a partner, else it is matched.
MatchStep ==
  /\ engine.mode = "match"
  /\ engine.pos <= Len(engine.order)
  /\ LET p == engine.order[engine.pos]
         free == \A m \in engine.matching : m[1] # p[1] /\ m[2] # p[2]
     IN engine' = [engine EXCEPT
                     !.pos = @ + 1,
                     !.matching = IF engine.iou[p] >= MinIoU /\ free
                                    THEN @ \cup {p} ELSE @]
  /\ UNCHANGED <<clientVars, refClient, tileCache>>

\* ------------------------------------------------------------------ store
Tabs == {"areas", "plots", "compare", "compliance", "export"}
ViewModes == {"satellite", "schematic"}

\* MapView effect 1: the layers the map is created with.  The base tile is
\* visible, both CSIDC reference layers are created hidden, and the WMS
\* overlay does not exist before the WMS configuration has arrived.
MountedLayers ==
  [baseTile |-> TRUE, wmsLayer |-> None, csidcRefLayer |-> FALSE,
   csidcRefVectorLayer |-> FALSE]

ClientInit ==
  /\ store = [mapExtent |-> None, showCsidcReference |-> FALSE,
              hideDetectedPlots |-> FALSE, csidcReferencePlots |-> None,
              selectedArea |-> None, areaBoundary |-> None,
              activeProject |-> None, selectedPlotId |-> None,
              editingPlotId |-> None, editingGeometry |-> None,
              detecting |-> FALSE, comparison |-> None, comparing |-> FALSE,
              sidebarTab |-> "areas", viewMode |-> "satellite",
              wmsConfig |-> None]
  /\ view = [promptMode |-> FALSE, plotFeatures |-> {}, deviationFeatures |-> {},
             modify |-> None, layers |-> MountedLayers]
  /\ srvProjects = <<>>
  /\ srvComparisons = [p \in 1..MaxRuns |-> None]
  /\ srvRuns = 0
  /\ srvCompRuns = 0
  /\ tasks = EmptyBag

Init ==
  /\ ClientInit
  /\ refClient = IdleRefClient([a \in Areas |-> {}])
  /\ tileCache = EmptyTileCache
  /\ engine = IdleEngine

\* Header: hasBbox
HasBbox(st) == IsSome(st.activeProject)

\* loadCsidcReferencePlots: "Skip if already loaded for this area"
RefPlotsLoaded(current, areaName) ==
  IsSome(current) /\ Val(current).area_name = areaName

\* MapView effect 2d: its dependencies and its condition.
Deps2d(st) ==
  <<st.showCsidcReference, st.hideDetectedPlots,
    IF IsSome(st.activeProject) THEN Some(Val(st.activeProject).area_name) ELSE None>>
Effect2dLoads(old, new) ==
  /\ Deps2d(old) # Deps2d(new)
  /\ new.showCsidcReference \/ new.hideDetectedPlots
  /\ IsSome(new.activeProject)
  /\ ~RefPlotsLoaded(new.csidcReferencePlots, Val(new.activeProject).area_name)

\* The requests in flight after a handler that left them as t and the store as
\* new: effect 2d calls loadCsidcReferencePlots, which sends a request.
WithEffects(t, new) ==
  IF Effect2dLoads(store, new)
    THEN Spawn(t, Task("fetchReferencePlots", "loadCsidcReferencePlots", 0, 0,
                       Val(new.activeProject).area_name))
    ELSE t
Commit(t, new) ==
  /\ Effect2dLoads(store, new) => HasFree(t)
  /\ store' = new
  /\ tasks' = WithEffects(t, new)

\* MapView effect 2: a WMS overlay is created when the configuration arrives;
\* a new layer is visible.
Effect2(old, new, l) ==
  IF old.wmsConfig # new.wmsConfig /\ IsSome(new.wmsConfig)
    THEN [l EXCEPT !.wmsLayer = Some(TRUE)] ELSE l

\* MapView effect 2c: visibility of the CSIDC reference WMS layer.  bboxSet:
\* activeProject was replaced, so activeProject?.bbox is a new array.
Effect2c(old, new, bboxSet, l) ==
  IF old.showCsidcReference # new.showCsidcReference \/ bboxSet
    THEN [l EXCEPT !.csidcRefLayer = new.showCsidcReference /\ HasBbox(new)]
    ELSE l

\* MapView effect 2e: the reference vector layer is filled from the cached
\* reference plots.  refSet: csidcReferencePlots was assigned a new object.
Effect2e(old, new, bboxSet, refSet, l) ==
  IF \/ refSet \/ bboxSet
     \/ old.csidcReferencePlots # new.csidcReferencePlots
     \/ old.showCsidcReference # new.showCsidcReference
     \/ old.hideDetectedPlots # new.hideDetectedPlots
    THEN [l EXCEPT !.csidcRefVectorLayer =
            /\ IsSome(new.csidcReferencePlots)
            /\ (new.showCsidcReference \/ new.hideDetectedPlots)
            /\ HasBbox(new)]
    ELSE l

\* MapView effect 5: schematic mode.
Effect5(old, new, bboxSet, l) ==
  LET imagery == new.viewMode # "schematic"
  IN IF \/ bboxSet
        \/ old.viewMode # new.viewMode
        \/ old.showCsidcReference # new.showCsidcReference
        \/ old.hideDetectedPlots # new.hideDetectedPlots
       THEN [baseTile |-> imagery,
             wmsLayer |-> IF IsSome(l.wmsLayer) THEN Some(imagery) ELSE None,
             csidcRefLayer |-> imagery /\ new.showCsidcReference /\ HasBbox(new),
             csidcRefVectorLayer |->
               /\ imagery
               /\ (new.showCsidcReference \/ new.hideDetectedPlots)
               /\ HasBbox(new)]
       ELSE l

\* The layer effects of one render, in the order MapView declares them.
LayerEffects(old, new, bboxSet, refSet, l) ==
  Effect5(old, new, bboxSet,
    Effect2e(old, new, bboxSet, refSet,
      Effect2c(old, new, bboxSet,
        Effect2(old, new, l))))
ViewAfter(old, new, bboxSet, refSet, v) ==
  [v EXCEPT !.layers = LayerEffects(old, new, bboxSet, refSet, @)]

\* Header: the Satellite and Schematic buttons. setViewMode.
SetViewMode(mode) ==
  /\ mode # store.viewMode
  /\ store' = [store EXCEPT !.viewMode = mode]
  /\ view' = ViewAfter(store, store', FALSE, FALSE, view)
  /\ UNCHANGED <<srvVars, tasks>>

\* loadWMSConfig, called when MapView mounts, after its await: the
\* configuration arrives.
DeliverWMSConfig ==
  /\ store.wmsConfig = None
  /\ store' = [store EXCEPT !.wmsConfig = Some("wms")]
  /\ view' = ViewAfter(store, store', FALSE, FALSE, view)
  /\ UNCHANGED <<srvVars, tasks>>

\* Sidebar: a tab of the tab bar is clicked.
SetSidebarTab(tab) ==
  /\ tab # store.sidebarTab
  /\ store' = [store EXCEPT !.sidebarTab = tab]
  /\ UNCHANGED <<view, srvVars, tasks>>

\* The user pans or zooms the map: reportView calls setMapView.
MoveMap(e) ==
  /\ store.mapExtent # Some(e)
  /\ store' = [store EXCEPT !.mapExtent = Some(e)]
  /\ UNCHANGED <<view, srvVars, tasks>>

\* AreasPanel: an area of the list is clicked. selectArea, then MapView effect 7
\* when the selected area changed: the running fetch is cancelled and the
\* boundary of the new area is requested.
RECURSIVE CancelBoundaryFetch(_)
CancelBoundaryFetch(b) ==
  LET running == {t \in BagToSet(b) : t.op = "fetchAreaBoundary" /\ ~t.cancelled}
  IN IF running = {} THEN b
     ELSE LET t == CHOOSE u \in running : TRUE
          IN CancelBoundaryFetch(Replace(b, t, [t EXCEPT !.cancelled = TRUE]))
SelectArea(a) ==
  LET changed == store.selectedArea # Some(a)
      cancelled == CancelBoundaryFetch(tasks)
  IN /\ store.sidebarTab = "areas"
     /\ changed => HasFree(tasks)
     /\ store' = [store EXCEPT !.selectedArea = Some(a), !.areaBoundary = None,
                               !.csidcReferencePlots = None]
     /\ tasks' = IF changed
                   THEN Spawn(cancelled, Task("fetchAreaBoundary", "effect7", 0, 0, a))
                   ELSE tasks
     /\ view' = ViewAfter(store, store', FALSE, FALSE, view)
     /\ UNCHANGED srvVars

\* MapView effect 7, after the await.
FitExtent(a) == <<"fit", a>>
BoundaryStoredLate(st, t) ==
  IF t.phase = "err" THEN [st EXCEPT !.areaBoundary = None]
  ELSE [st EXCEPT !.areaBoundary = t.reply, !.mapExtent = Some(FitExtent(t.arg))]
BoundaryStored(st, t) ==
  IF t.phase = "err" THEN [st EXCEPT !.areaBoundary = None]
  ELSE IF t.cancelled THEN st
  ELSE [st EXCEPT !.areaBoundary = t.reply, !.mapExtent = Some(FitExtent(t.arg))]
DeliverAreaBoundary(t) ==
  /\ t.op = "fetchAreaBoundary" /\ t.phase \in {"ok", "err"}
  /\ store' = BoundaryStored(store, t)
  /\ tasks' = Drop(tasks, t)
  /\ UNCHANGED <<view, srvVars>>

\* loadCsidcReferencePlots, after the await.
DeliverReferencePlots(t) ==
  /\ t.op = "fetchReferencePlots" /\ t.phase \in {"ok", "err"}
  /\ store' = IF t.phase = "ok" THEN [store EXCEPT !.csidcReferencePlots = t.reply]
              ELSE store
  /\ tasks' = Drop(tasks, t)
  /\ view' = ViewAfter(store, store', FALSE, t.phase = "ok", view)
  /\ UNCHANGED srvVars

\* Header: the CSIDC Ref button.
ToggleCsidcReference ==
  /\ HasBbox(store)
  /\ Commit(tasks, [store EXCEPT !.showCsidcReference = ~@])
  /\ view' = ViewAfter(store, store', FALSE, FALSE, view)
  /\ UNCHANGED srvVars

\* Header: the CSIDC Only button.
ToggleHideDetectedPlots ==
  LET newHide == ~store.hideDetectedPlots
  IN /\ HasBbox(store)
     /\ Commit(tasks, IF newHide /\ ~store.showCsidcReference
                        THEN [store EXCEPT !.hideDetectedPlots = newHide,
                                           !.showCsidcReference = TRUE]
                        ELSE [store EXCEPT !.hideDetectedPlots = newHide])
     /\ view' = ViewAfter(store, store', FALSE, FALSE, view)
     /\ UNCHANGED srvVars

\* ------------------------------------------------------------------ detection
\* A Detect Boundaries button that needs the boundary of the area.
DetectDisabledWithoutBoundary(st) == st.detecting \/ st.areaBoundary = None

\* AreasPanel: the Detect Boundaries button is rendered for a selected area and
\* is disabled while a detection runs.
DetectDisabled(st) == st.detecting
DetectButton(st) ==
  st.sidebarTab = "areas" /\ IsSome(st.selectedArea) /\ ~DetectDisabled(st)

\* AreasPanel: the bbox of the area boundary if there is one, else the viewport.
DetectBbox(st) ==
  IF IsSome(st.areaBoundary) THEN <<"area", Val(st.areaBoundary).name>>
  ELSE IF IsSome(st.mapExtent) THEN Val(st.mapExtent)
  ELSE ZeroBbox

\* runAutoDetect, up to its await.
RunAutoDetect(bbox) ==
  /\ HasFree(tasks)
  /\ store' = [store EXCEPT !.detecting = TRUE]
  /\ tasks' = Spawn(tasks,
       Task("autoDetect", "runAutoDetect",
            IF IsSome(store.activeProject) THEN Val(store.activeProject).id ELSE 0,
            0, [bbox |-> bbox, area |-> Val(store.selectedArea)]))
  /\ UNCHANGED <<view, srvVars>>

ClickDetect ==
  /\ DetectButton(store)
  /\ RunAutoDetect(DetectBbox(store))

\* runPromptDetect, up to its await; without a project it returns at once.
PromptGuard(st) == IsSome(st.activeProject)
RunPromptDetect ==
  /\ PromptGuard(store)
  /\ HasFree(tasks)
  /\ store' = [store EXCEPT !.detecting = TRUE]
  /\ tasks' = Spawn(tasks,
       Task("promptDetect", "runPromptDetect", Val(store.activeProject).id, 0,
            [bbox |-> Val(store.activeProject).bbox]))
  /\ UNCHANGED <<view, srvVars>>

\* App: the prompt mode handed to MapView.
SetPromptMode(b) ==
  /\ view.promptMode # b
  /\ view' = [view EXCEPT !.promptMode = b]
  /\ UNCHANGED <<store, srvVars, tasks>>

\* MapView handleClick: ignored while a boundary is edited; in prompt mode the
\* click starts a prompt detection; otherwise it selects the plot under it.
ClickBlocked(st) == IsSome(st.editingPlotId)
MapClickPrompt ==
  /\ ~ClickBlocked(store)
  /\ view.promptMode
  /\ RunPromptDetect
Hittable == IF store.hideDetectedPlots THEN {} ELSE {f.id : f \in view.plotFeatures}
MapClickSelect(hit) ==
  /\ ~ClickBlocked(store)
  /\ ~view.promptMode
  /\ IF hit = None THEN TRUE ELSE Val(hit) \in Hittable
  /\ store.selectedPlotId # hit
  /\ store' = [store EXCEPT !.selectedPlotId = hit]
  /\ UNCHANGED <<view, srvVars, tasks>>

\* loadProject: fetchProject is sent for the store function cont.
LoadProject(b, t, pid, cont) ==
  Replace(b, t, Task("fetchProject", cont, pid, 0, None))

\* runAutoDetect after api.autoDetect: loadProject(result.project_id), or the
\* catch and the finally.
DeliverAutoDetect(t) ==
  /\ t.op = "autoDetect" /\ t.phase \in {"ok", "err"}
  /\ IF t.phase = "ok"
       THEN /\ tasks' = LoadProject(tasks, t, Val(t.reply).project_id, t.cont)
            /\ UNCHANGED store
       ELSE /\ tasks' = Drop(tasks, t)
            /\ store' = [store EXCEPT !.detecting = FALSE]
  /\ UNCHANGED <<view, srvVars>>

\* runPromptDetect after api.promptDetect.
DeliverPromptDetect(t) ==
  /\ t.op = "promptDetect" /\ t.phase \in {"ok", "err"}
  /\ IF t.phase = "ok"
       THEN /\ tasks' = LoadProject(tasks, t, t.pid, t.cont)
            /\ UNCHANGED store
       ELSE /\ tasks' = Drop(tasks, t)
            /\ store' = [store EXCEPT !.detecting = FALSE]
  /\ UNCHANGED <<view, srvVars>>

\* A loadProject that drops the project when the fetch fails.
LoadedProjectOrNone(st, t) ==
  IF t.phase = "ok" THEN [st EXCEPT !.activeProject = t.reply]
  ELSE [st EXCEPT !.activeProject = None]

\* loadProject after api.fetchProject: the project is stored whole, or the
\* store is left as it is.
LoadedProject(st, t) ==
  IF t.phase = "ok" THEN [st EXCEPT !.activeProject = t.reply] ELSE st

\* What the store function that awaited loadProject does next.
AfterLoad(st, cont) ==
  CASE cont = "runAutoDetect" ->
         [st EXCEPT !.hideDetectedPlots = TRUE, !.showCsidcReference = TRUE,
                    !.detecting = FALSE]
    [] cont = "runPromptDetect" -> [st EXCEPT !.detecting = FALSE]
    [] cont = "removePlot" -> [st EXCEPT !.selectedPlotId = None]
    [] OTHER -> st

\* MapView effect 3: the plot layer is cleared and filled from the plots.
FeaturesOf(project) == {p \in project.plots : p.is_active}

DeliverFetchProject(t) ==
  /\ t.op = "fetchProject" /\ t.phase \in {"ok", "err"}
  /\ Commit(Drop(tasks, t), AfterLoad(LoadedProject(store, t), t.cont))
  /\ view' = ViewAfter(store, store', t.phase = "ok", FALSE,
                IF t.phase = "ok"
                  THEN [view EXCEPT !.plotFeatures = FeaturesOf(Val(t.reply)),
                                    !.modify = IF IsSome(@)
                                                 THEN Some([Val(@) EXCEPT !.attached = FALSE])
                                                 ELSE @]
                  ELSE view)
  /\ UNCHANGED srvVars

\* ------------------------------------------------------------------ plots
ProjectPlots(st) == IF IsSome(st.activeProject) THEN Val(st.activeProject).plots ELSE {}
PlotsPanel(st) == st.sidebarTab = "plots" /\ IsSome(st.activeProject)
IsEditingBoundary(st) == IsSome(st.editingPlotId)
\* PlotsPanel: the rows of the plot list and the Total Plots figure.
ListedPlots(st) == IF PlotsPanel(st) THEN ProjectPlots(st) ELSE {}
TotalPlots(st) == Cardinality(ListedPlots(st))

\* PlotsPanel: a row of the plot list is clicked.
ListSelectPlot(id) ==
  /\ PlotsPanel(store) /\ ~IsEditingBoundary(store)
  /\ id \in {p.id : p \in ProjectPlots(store)}
  /\ store.selectedPlotId # Some(id)
  /\ store' = [store EXCEPT !.selectedPlotId = Some(id)]
  /\ UNCHANGED <<view, srvVars, tasks>>

\* PlotsPanel: the delete button of a row. removePlot, up to its await.
RemovePlot(id) ==
  /\ PlotsPanel(store) /\ ~IsEditingBoundary(store)
  /\ id \in {p.id : p \in ProjectPlots(store)}
  /\ HasFree(tasks)
  /\ tasks' = Spawn(tasks, Task("deletePlot", "removePlot",
                                Val(store.activeProject).id, id, None))
  /\ UNCHANGED <<store, view, srvVars>>

\* removePlot after api.deletePlot.
DeliverDeletePlot(t) ==
  /\ t.op = "deletePlot" /\ t.phase \in {"ok", "err"}
  /\ tasks' = IF t.phase = "ok" THEN LoadProject(tasks, t, t.pid, t.cont)
              ELSE Drop(tasks, t)
  /\ UNCHANGED <<store, view, srvVars>>

\* PlotsPanel: a label edit is committed. updatePlotLabel, up to its await;
\* startEdit refuses to open the label input while a boundary is edited.
UpdatePlotLabel(id) ==
  /\ PlotsPanel(store) /\ ~IsEditingBoundary(store)
  /\ id \in {p.id : p \in ProjectPlots(store)}
  /\ HasFree(tasks)
  /\ tasks' = Spawn(tasks, Task("updateLabel", "updatePlotLabel",
                                Val(store.activeProject).id, id, None))
  /\ UNCHANGED <<store, view, srvVars>>

\* updatePlotLabel after api.updatePlot.
DeliverUpdateLabel(t) ==
  /\ t.op = "updateLabel" /\ t.phase \in {"ok", "err"}
  /\ tasks' = IF t.phase = "ok" THEN LoadProject(tasks, t, t.pid, t.cont)
              ELSE Drop(tasks, t)
  /\ UNCHANGED <<store, view, srvVars>>

\* ------------------------------------------------------------------ editing
\* MapView effect 10: the Modify interaction holds the feature of the edited
\* plot that the plot layer has when editing starts.
ModifyFor(id, features) ==
  IF \E f \in features : f.id = id
    THEN Some([id |-> id,
               geometry |-> (CHOOSE f \in features : f.id = id).geometry,
               attached |-> TRUE])
    ELSE None

\* PlotsPanel: the edit-boundary button of the selected row. startEditing.
StartEditing(id) ==
  /\ PlotsPanel(store) /\ ~IsEditingBoundary(store)
  /\ store.selectedPlotId = Some(id)
  /\ \E p \in ProjectPlots(store) : p.id = id
  /\ store' = [store EXCEPT
       !.editingPlotId = Some(id),
       !.editingGeometry = Some((CHOOSE p \in ProjectPlots(store) : p.id = id).geometry),
       !.selectedPlotId = Some(id)]
  /\ view' = [view EXCEPT !.modify = ModifyFor(id, view.plotFeatures)]
  /\ UNCHANGED <<srvVars, tasks>>

\* A vertex is dragged: Modify changes the geometry of its feature in place and
\* modifyend calls updateEditingGeometry.
DragVertex(g) ==
  /\ IsSome(view.modify)
  /\ Val(view.modify).geometry # g
  /\ view' = [view EXCEPT
       !.modify = Some([Val(@) EXCEPT !.geometry = g]),
       !.plotFeatures = IF Val(view.modify).attached
                          THEN {IF f.id = Val(view.modify).id
                                  THEN [f EXCEPT !.geometry = g] ELSE f : f \in @}
                          ELSE @]
  /\ store' = [store EXCEPT !.editingGeometry = Some(g)]
  /\ UNCHANGED <<srvVars, tasks>>

\* The keyboard shortcuts of effect 11 and the buttons of the editing banner exist
\* while a boundary is edited.
EditControls(st) == IsSome(st.editingPlotId)

\* saveEditing, up to its await.
SaveEditing ==
  /\ EditControls(store)
  /\ IsSome(store.editingGeometry) /\ IsSome(store.activeProject)
  /\ HasFree(tasks)
  /\ tasks' = Spawn(tasks, Task("updatePlot", "saveEditing",
                                Val(store.activeProject).id,
                                Val(store.editingPlotId), Val(store.editingGeometry)))
  /\ UNCHANGED <<store, view, srvVars>>

\* saveEditing after api.updatePlot: edit mode is left and the project reloaded,
\* or the catch.
DeliverUpdatePlot(t) ==
  /\ t.op = "updatePlot" /\ t.phase \in {"ok", "err"}
  /\ IF t.phase = "ok"
       THEN /\ store' = [store EXCEPT !.editingPlotId = None,
                                      !.editingGeometry = None]
            /\ view' = [view EXCEPT !.modify = None]
            /\ tasks' = LoadProject(tasks, t, t.pid, t.cont)
       ELSE /\ tasks' = Drop(tasks, t)
            /\ UNCHANGED <<store, view>>
  /\ UNCHANGED srvVars

\* cancelEditing: edit mode is left and the project reloaded.
CancelEditing ==
  /\ EditControls(store)
  /\ IsSome(store.activeProject) => HasFree(tasks)
  /\ store' = [store EXCEPT !.editingPlotId = None, !.editingGeometry = None]
  /\ view' = [view EXCEPT !.modify = None]
  /\ tasks' = IF IsSome(store.activeProject)
                THEN Spawn(tasks, Task("fetchProject", "cancelEditing",
                                       Val(store.activeProject).id, 0, None))
                ELSE tasks
  /\ UNCHANGED srvVars

\* ------------------------------------------------------------------ comparison
\* ComparePanel: canRun
CanRunComparison(st) ==
  IsSome(st.activeProject) /\ ProjectPlots(st) # {} /\ ~st.comparing

\* runComparison, up to its await.
RunComparison ==
  /\ store.sidebarTab = "compare"
  /\ CanRunComparison(store)
  /\ HasFree(tasks)
  /\ store' = [store EXCEPT !.comparing = TRUE]
  /\ tasks' = Spawn(tasks, Task("runComparison", "runComparison",
                                Val(store.activeProject).id, 0, None))
  /\ UNCHANGED <<view, srvVars>>

\* An effect 6 that adds to the deviation layer without clearing it.
DeviationFeaturesAdded(cmp) ==
  view.deviationFeatures \cup
    (IF IsSome(cmp)
       THEN {[id |-> d.id, geometry |-> Val(d.deviation_geometry)] :
               d \in {e \in Val(cmp).deviations : IsSome(e.deviation_geometry)}}
       ELSE {})

\* MapView effect 6: the deviation layer is cleared and filled from the
\* deviations that have a geometry.
DeviationFeatures(cmp) ==
  IF IsSome(cmp)
    THEN {[id |-> d.id, geometry |-> Val(d.deviation_geometry)] :
            d \in {e \in Val(cmp).deviations : IsSome(e.deviation_geometry)}}
    ELSE {}

\* runComparison after api.runComparison.
StoredComparison(st, t) ==
  IF t.phase = "ok" THEN [st EXCEPT !.comparison = t.reply, !.comparing = FALSE]
  ELSE [st EXCEPT !.comparing = FALSE]
DeliverRunComparison(t) ==
  /\ t.op = "runComparison" /\ t.phase \in {"ok", "err"}
  /\ store' = StoredComparison(store, t)
  /\ view' = [view EXCEPT !.deviationFeatures = DeviationFeatures(store'.comparison)]
  /\ tasks' = Drop(tasks, t)
  /\ UNCHANGED srvVars

\* ComparePanel: the summary cards shown for the stored comparison.
CardFields ==
  {"total_detected", "total_basemap", "compliant", "encroachment",
   "boundary_mismatch", "vacant", "unauthorized", "unmatched_detected"}
SummaryCards(st) ==
  IF st.sidebarTab = "compare" /\ IsSome(st.comparison)
    THEN {[field |-> f, value |-> Val(st.comparison).summary[f]] : f \in CardFields}
    ELSE {}

\* ------------------------------------------------------------------ specification
Next ==
  \/ \E tab \in Tabs : SetSidebarTab(tab)
  \/ \E e \in Extents : MoveMap(e)
  \/ \E a \in Areas : SelectArea(a)
  \/ ToggleCsidcReference
  \/ ToggleHideDetectedPlots
  \/ \E mode \in ViewModes : SetViewMode(mode)
  \/ DeliverWMSConfig
  \/ ClickDetect
  \/ \E b \in BOOLEAN : SetPromptMode(b)
  \/ MapClickPrompt
  \/ \E hit \in {None} \cup {Some(i) : i \in 1..(MaxRuns * MaxDetect)} : MapClickSelect(hit)
  \/ \E i \in 1..(MaxRuns * MaxDetect) : ListSelectPlot(i)
  \/ \E i \in 1..(MaxRuns * MaxDetect) : RemovePlot(i)
  \/ \E i \in 1..(MaxRuns * MaxDetect) : UpdatePlotLabel(i)
  \/ \E i \in 1..(MaxRuns * MaxDetect) : StartEditing(i)
  \/ \E g \in Geoms : DragVertex(g)
  \/ SaveEditing
  \/ CancelEditing
  \/ RunComparison
  \/ \E t \in InFlight :
       \/ ServerOk(t)
       \/ ServerErr(t)
       \/ ReplyLost(t)
       \/ DeliverAreaBoundary(t)
       \/ DeliverReferencePlots(t)
       \/ DeliverAutoDetect(t)
       \/ DeliverPromptDetect(t)
       \/ DeliverFetchProject(t)
       \/ DeliverDeletePlot(t)
       \/ DeliverUpdateLabel(t)
       \/ DeliverUpdatePlot(t)
       \/ DeliverRunComparison(t)

Spec == Init /\ [][Next]_vars

\* Detection: areas, boundaries, the Detect Boundaries button, prompt mode.
NextDetect ==
  \/ \E tab \in {"areas", "compare"} : SetSidebarTab(tab)
  \/ \E a \in {"URLA"} : SelectArea(a)
  \/ ClickDetect
  \/ \E b \in BOOLEAN : SetPromptMode(b)
  \/ MapClickPrompt
  \/ RunComparison
  \/ \E t \in InFlight :
       \/ ServerOk(t)
       \/ ServerErr(t)
       \/ ReplyLost(t)
       \/ DeliverAreaBoundary(t)
       \/ DeliverReferencePlots(t)
       \/ DeliverAutoDetect(t)
       \/ DeliverPromptDetect(t)
       \/ DeliverFetchProject(t)
       \/ DeliverRunComparison(t)

SpecDetect == Init /\ [][NextDetect]_vars

\* Detection and comparison runs that the backend completes or rejects.
NextRuns ==
  \/ \E tab \in {"areas", "compare"} : SetSidebarTab(tab)
  \/ \E a \in {"URLA"} : SelectArea(a)
  \/ ClickDetect
  \/ RunComparison
  \/ \E t \in InFlight :
       \/ ServerOk(t)
       \/ ServerErr(t)
       \/ DeliverAreaBoundary(t)
       \/ DeliverReferencePlots(t)
       \/ DeliverAutoDetect(t)
       \/ DeliverFetchProject(t)
       \/ DeliverRunComparison(t)

SpecRuns == Init /\ [][NextRuns]_vars

\* Reference data: areas, boundaries, the header toggles, reference plots.
NextRef ==
  \/ \E a \in Areas : SelectArea(a)
  \/ ToggleCsidcReference
  \/ ToggleHideDetectedPlots
  \/ ClickDetect
  \/ \E t \in InFlight :
       \/ ServerOk(t)
       \/ ServerErr(t)
       \/ ReplyLost(t)
       \/ DeliverAreaBoundary(t)
       \/ DeliverReferencePlots(t)
       \/ DeliverAutoDetect(t)
       \/ DeliverFetchProject(t)

SpecRef == Init /\ [][NextRef]_vars

\* Boundary editing: a detected plot is selected, edited, saved or cancelled.
NextEdit ==
  \/ SetSidebarTab("plots")
  \/ \E a \in {"URLA"} : SelectArea(a)
  \/ ClickDetect
  \/ \E i \in 1..(MaxRuns * MaxDetect) : ListSelectPlot(i)
  \/ \E i \in 1..(MaxRuns * MaxDetect) : StartEditing(i)
  \/ \E g \in Geoms : DragVertex(g)
  \/ SaveEditing
  \/ CancelEditing
  \/ \E t \in InFlight :
       \/ ServerOk(t)
       \/ ServerErr(t)
       \/ DeliverAreaBoundary(t)
       \/ DeliverReferencePlots(t)
       \/ DeliverAutoDetect(t)
       \/ DeliverFetchProject(t)
       \/ DeliverUpdatePlot(t)

SpecEdit == Init /\ [][NextEdit]_vars

\* The map layers: view mode, WMS configuration, reference toggles and the
\* data they load, on a backend that answers every request.
NextLayers ==
  \/ \E a \in {"URLA"} : SelectArea(a)
  \/ ClickDetect
  \/ ToggleCsidcReference
  \/ ToggleHideDetectedPlots
  \/ \E mode \in ViewModes : SetViewMode(mode)
  \/ DeliverWMSConfig
  \/ \E t \in InFlight :
       \/ ServerOk(t)
       \/ DeliverAreaBoundary(t)
       \/ DeliverReferencePlots(t)
       \/ DeliverAutoDetect(t)
       \/ DeliverFetchProject(t)

SpecLayers == Init /\ [][NextLayers]_vars

\* The areas panel: area selection and the boundary fetches of effect 7.
NextAreas ==
  \/ \E e \in Extents : MoveMap(e)
  \/ \E a \in Areas : SelectArea(a)
  \/ \E t \in InFlight :
       \/ ServerOk(t)
       \/ ServerErr(t)
       \/ ReplyLost(t)
       \/ DeliverAreaBoundary(t)

SpecAreas == Init /\ [][NextAreas]_vars

\* The plots panel: selection, deletion, label updates and boundary editing,
\* with detection runs, on a backend that answers every request.
NextPlots ==
  \/ SetSidebarTab("plots")
  \/ \E a \in {"URLA"} : SelectArea(a)
  \/ ClickDetect
  \/ \E i \in 1..(MaxRuns * MaxDetect) : ListSelectPlot(i)
  \/ MapClickSelect(None)
  \/ \E i \in 1..(MaxRuns * MaxDetect) : RemovePlot(i)
  \/ \E i \in 1..(MaxRuns * MaxDetect) : UpdatePlotLabel(i)
  \/ \E i \in 1..(MaxRuns * MaxDetect) : StartEditing(i)
  \/ \E g \in Geoms : DragVertex(g)
  \/ SaveEditing
  \/ CancelEditing
  \/ \E t \in InFlight :
       \/ ServerOk(t)
       \/ DeliverAreaBoundary(t)
       \/ DeliverReferencePlots(t)
       \/ DeliverAutoDetect(t)
       \/ DeliverFetchProject(t)
       \/ DeliverDeletePlot(t)
       \/ DeliverUpdateLabel(t)
       \/ DeliverUpdatePlot(t)

SpecPlots == Init /\ [][NextPlots]_vars

\* ReferenceDataClient: lookups of areas that any set of strategies may find.
InitLookup ==
  /\ ClientInit
  /\ refClient \in {IdleRefClient(f) : f \in [Areas -> SUBSET StrategyNames]}
  /\ tileCache = EmptyTileCache
  /\ engine = IdleEngine
NextLookup ==
  \/ \E a \in Areas : StartLookup(a)
  \/ AttemptStrategy
SpecLookup == InitLookup /\ [][NextLookup]_vars

\* TileCache: requests of composites, any of which may end in a FetchError.
NextTiles == \E k \in TileKeys, outcome \in {"ok", "FetchError"} : RequestComposite(k, outcome)
SpecTiles == Init /\ [][NextTiles]_vars

\* ComparisonEngine: the classification of one case.
InitClassify ==
  /\ ClientInit
  /\ refClient = IdleRefClient([a \in Areas |-> {}])
  /\ tileCache = EmptyTileCache
  /\ engine \in {[mode |-> "classify", case |-> c, classified |-> FALSE,
                   deviation |-> None] : c \in Cases}
SpecClassify == InitClassify /\ [][ClassifyCase]_vars

\* ComparisonEngine: the matching of one detected set with one reference set.
InitMatch ==
  /\ ClientInit
  /\ refClient = IdleRefClient([a \in Areas |-> {}])
  /\ tileCache = EmptyTileCache
  /\ engine \in {[mode |-> "match", iou |-> f, order |-> SortPairs(f, Pairs),
                   pos |-> 1, matching |-> {}] : f \in [Pairs -> IoULevels]}
SpecMatch == InitMatch /\ [][MatchStep]_vars

\* ------------------------------------------------------------------ C1
DetectOps == {"autoDetect", "promptDetect"}

Fails(t) ==
  /\ t \in InFlight
  /\ t.phase = "err"
  /\ CopiesIn(t, tasks') < CopiesIn(t, tasks)
  /\ LET c == [t EXCEPT !.cancelled = TRUE]
     IN t.cancelled \/ CopiesIn(c, tasks') <= CopiesIn(c, tasks)
RunOps == {"autoDetect", "promptDetect", "runComparison", "fetchProject"}

\* What a step may do to activeProject and comparison.
ReplaceOrNothing ==
  /\ \A t \in InFlight :
       Fails(t) /\ t.op \in RunOps =>
         /\ store'.activeProject = store.activeProject
         /\ store'.comparison = store.comparison
  /\ store'.activeProject # store.activeProject =>
       \E t \in InFlight : /\ t.op = "fetchProject" /\ t.phase = "ok"
                           /\ store'.activeProject = t.reply
  /\ store'.comparison # store.comparison =>
       \E t \in InFlight : /\ t.op = "runComparison" /\ t.phase = "ok"
                           /\ store'.comparison = t.reply

\* C2: a detection or comparison run that fails, or that has not completed,
\* leaves activeProject and comparison as they were; each of the two changes
\* only by being replaced with the whole answer of a request that succeeded.
C2_ReplaceOrNothing == [][ReplaceOrNothing]_vars

\* A run has failed for the client after the backend stored its plots: nothing
\* is in flight, and the store still holds the project of before the run.
C2_Witness ==
  /\ InFlight = {}
  /\ ~store.detecting
  /\ IsSome(store.activeProject)
  /\ SrvProject(Val(store.activeProject).id).plots # Val(store.activeProject).plots

\* ------------------------------------------------------------------ C3
RunOf(id) == id[1]

\* C3: the stored comparison holds the deviations of one run only, and the
\* deviation layer of the map holds exactly the deviations of that run that
\* have a geometry: nothing of an earlier run remains after a rerun.
C3_AtomicReplace ==
  /\ IsSome(store.comparison) =>
        \A d \in Val(store.comparison).deviations :
          RunOf(d.id) = Val(store.comparison).run
  /\ {f.id : f \in view.deviationFeatures} =
        IF IsSome(store.comparison)
          THEN {d.id : d \in {e \in Val(store.comparison).deviations :
                                 IsSome(e.deviation_geometry)}}
          ELSE {}

\* The comparison of a rerun is stored after an earlier run had put deviations
\* on the map.
C3_Witness ==
  /\ IsSome(store.comparison)
  /\ Val(store.comparison).run >= 2
  /\ ~store.comparing
  /\ Val(store.comparison).deviations # {}

\* ------------------------------------------------------------------ C4
\* The backend holds the geometry that the map shows for feature f: the edit of
\* the plot has been saved.
Saved(f) ==
  /\ IsSome(store.activeProject)
  /\ \E p \in SrvProject(Val(store.activeProject).id).plots :
       p.id = f.id /\ p.geometry = f.geometry

\* C4: outside edit mode, a plot on the map whose geometry is the saved one
\* carries the area and the perimeter of that geometry.
C4_NeverStale ==
  ~IsEditingBoundary(store) =>
    \A f \in view.plotFeatures :
      Saved(f) => /\ f.area_sqm = AreaSqm(f.geometry)
                  /\ f.perimeter_m = PerimeterM(f.geometry)

\* ------------------------------------------------------------------ C5
ClassifiedCase == engine.mode = "classify" /\ engine.classified

\* C5: the deviation type of a classified case is that of the first rule, in
\* priority order, that matches it; an ENCROACHMENT has severity low below 10
\* per cent of excess area over reference area, medium from 10 to 25, high from
\* 25 to 50 and critical above 50; 300 sqm beyond a reference plot of 1,000 sqm
\* is an ENCROACHMENT of severity high.
C5_Classification ==
  ClassifiedCase =>
    LET c == engine.case
        e == c.excess * 100
        r == c.refArea
        matching == {i \in 1..Len(Rules) : RuleMatches(i, c)}
    IN /\ matching = {} <=> engine.deviation = None
       /\ IsSome(engine.deviation) =>
            LET d == Val(engine.deviation)
            IN /\ \E i \in matching : /\ \A j \in matching : i <= j
                                      /\ d.deviation_type = Rules[i]
               /\ d.deviation_type = "ENCROACHMENT" =>
                    /\ e < 10 * r => d.severity = "low"
                    /\ 10 * r <= e /\ e < 25 * r => d.severity = "medium"
                    /\ e = 25 * r => d.severity \in {"medium", "high"}
                    /\ 25 * r < e /\ e <= 50 * r => d.severity = "high"
                    /\ e > 50 * r => d.severity = "critical"
               /\ c.kind = "pair" /\ c.excess = 300 /\ c.refArea = 1000 =>
                    d.deviation_type = "ENCROACHMENT" /\ d.severity = "high"

\* The case of 300 sqm beyond a reference plot of 1,000 sqm has been classified,
\* with a mismatch inside the reference plot as well, so that two rules match.
C5_Witness ==
  /\ ClassifiedCase
  /\ engine.case.kind = "pair"
  /\ engine.case.excess = 300 /\ engine.case.refArea = 1000
  /\ engine.case.symdiff > engine.case.excess
  /\ IsSome(engine.deviation)

\* ------------------------------------------------------------------ C6
MatchingDone == engine.mode = "match" /\ engine.pos > Len(engine.order)
SharesSide(p, q) == p[1] = q[1] \/ p[2] = q[2]
Preferred(p, q) ==
  \/ engine.iou[p] > engine.iou[q]
  \/ engine.iou[p] = engine.iou[q] /\ p[1] < q[1]
  \/ engine.iou[p] = engine.iou[q] /\ p[1] = q[1] /\ p[2] < q[2]

\* C6: no plot of either side has two partners, no matched pair is below the
\* minimum overlap, and the finished matching is the greedy one: a pair with
\* enough overlap is left out only if a pair that comes before it (more
\* overlap, or the same overlap and a lower id) holds one of its sides.
C6_GreedyMatching ==
  engine.mode = "match" =>
    /\ \A p, q \in engine.matching : p # q => ~SharesSide(p, q)
    /\ \A p \in engine.matching : engine.iou[p] >= MinIoU
    /\ MatchingDone =>
         \A p \in Pairs \ engine.matching :
           engine.iou[p] >= MinIoU =>
             \E m \in engine.matching : SharesSide(m, p) /\ Preferred(m, p)

\* A finished matching in which a pair was left out although it has as much
\* overlap as a matched pair: the tie went to the lower id.
C6_Witness ==
  /\ MatchingDone
  /\ \E m \in engine.matching, p \in Pairs \ engine.matching :
       SharesSide(m, p) /\ engine.iou[m] = engine.iou[p]

\* ------------------------------------------------------------------ C7
\* The Detect Boundaries button can be pressed: an area is selected, no
\* detection runs, and the request can be sent.
DetectReady ==
  /\ store.sidebarTab = "areas"
  /\ IsSome(store.selectedArea)
  /\ ~store.detecting
  /\ HasFree(tasks)

\* What a step that ends a failed reference fetch does to the store.
SoftFailure ==
  \A t \in InFlight :
    Fails(t) =>
      /\ t.op = "fetchAreaBoundary" => store'.areaBoundary = None
      /\ t.op = "fetchReferencePlots" =>
            store'.csidcReferencePlots = store.csidcReferencePlots
      /\ t.op \in {"fetchAreaBoundary", "fetchReferencePlots"} =>
            /\ store'.detecting = store.detecting
            /\ store'.selectedArea = store.selectedArea
            /\ store'.activeProject = store.activeProject

\* C7: a failed fetch of the area boundary leaves areaBoundary null, a failed
\* fetch of the reference plots leaves csidcReferencePlots as it was (null when
\* nothing was loaded), neither touches anything else a detection needs, and a
\* detection can be started whether or not the reference data is there.
C7_SoftFailure == [](DetectReady => ENABLED ClickDetect) /\ [][SoftFailure]_vars

\* A detection has been started with no area boundary and no reference plots,
\* while the fetch of the reference plots has failed.
C7_Witness ==
  /\ IsSome(store.selectedArea)
  /\ store.areaBoundary = None
  /\ store.csidcReferencePlots = None
  /\ Pending({"fetchAreaBoundary"}) = 0
  /\ \E t \in InFlight : t.op = "fetchReferencePlots" /\ t.phase = "err"
  /\ Pending({"autoDetect"}) = 1

\* ------------------------------------------------------------------ C8
\* C8: the strategies attempted are the first ones of the fixed order, none but
\* the last attempted has found the area, a found result comes from the last
\* strategy attempted, and the result is ReferenceNotFound exactly when the
\* whole chain has been attempted and no strategy has found the area.
C8_OrderedLookup ==
  (IsSome(refClient.area) /\ refClient.served = "chain") =>
    LET a == Val(refClient.area)
        tried == refClient.attempts
    IN /\ Len(tried) <= Len(Strategies)
       /\ \A i \in 1..Len(tried) : tried[i] = Strategies[i]
       /\ \A i \in 1..(Len(tried) - 1) : tried[i] \notin refClient.finds[a]
       /\ IsSome(refClient.result) =>
            /\ Len(tried) >= 1
            /\ Val(refClient.result).kind \in {"Found", "ReferenceNotFound"}
            /\ Val(refClient.result).kind = "Found" =>
                  /\ Val(refClient.result).by = tried[Len(tried)]
                  /\ Val(refClient.result).by \in refClient.finds[a]
            /\ Val(refClient.result).kind = "ReferenceNotFound" <=>
                  (Len(tried) = Len(Strategies) /\ refClient.finds[a] = {})
       /\ (refClient.result = None /\ Len(tried) >= 1) =>
            tried[Len(tried)] \notin refClient.finds[a]

\* A lookup has stopped at the second strategy although a later one would find
\* the area too, and another has gone through the chain to ReferenceNotFound.
C8_Witness ==
  /\ IsSome(refClient.area) /\ refClient.served = "chain"
  /\ refClient.result = Some(ReferenceNotFound)
  /\ \E c \in refClient.cache : c.by = "fuzzy" /\ "legacy" \in refClient.finds[c.area]

\* ------------------------------------------------------------------ C9
\* C9: the reference plots of an area are never requested while they are
\* loaded or while a request for them is in flight.
C9_NoDuplicateFetch ==
  \A a \in Areas :
    BagCardinality([t \in {u \in InFlight : u.op = "fetchReferencePlots" /\ u.arg = a}
                      |-> CopiesIn(t, tasks)]) <= 1

\* ------------------------------------------------------------------ C10
\* C10: a composite is fetched again only after a FetchError; two or more
\* requests of the same bbox and zoom, none ending in a FetchError, make
\* exactly one fetch.
C10_OneFetch ==
  \A k \in TileKeys :
    /\ tileCache.fetches[k] <= tileCache.errors[k] + 1
    /\ (tileCache.requests[k] >= 2 /\ tileCache.errors[k] = 0) =>
         tileCache.fetches[k] = 1
    /\ k \in tileCache.cached <=> tileCache.fetches[k] = tileCache.errors[k] + 1

\* The same bbox and zoom has been requested twice and fetched once.
C10_Witness ==
  \E k \in TileKeys :
    /\ tileCache.requests[k] = 2
    /\ tileCache.errors[k] = 0
    /\ tileCache.fetches[k] = 1

\* ------------------------------------------------------------------ C11
\* C11: a project is created on the first detection request and only then:
\* an auto-detect request names a new project (no project id) exactly when
\* no project exists yet, and detection runs never create a second project.
C11_OneProject ==
  /\ Len(srvProjects) <= 1
  /\ \A t \in InFlight :
       (t.op = "autoDetect" /\ t.phase = "sent") =>
         (t.pid = 0 <=> srvProjects = <<>>)

\* ------------------------------------------------------------------ C12
\* C12: for a project that already has plots, every detection request
\* issued for it, auto or prompt, uses the project's own stored bbox.
C12_OwnBbox ==
  \A t \in InFlight :
    (/\ t.op \in DetectOps
     /\ t.phase = "sent"
     /\ t.pid # 0
     /\ SrvHas(t.pid)
     /\ SrvProject(t.pid).plots # {}) =>
      t.arg.bbox = SrvProject(t.pid).bbox

\* ------------------------------------------------------------------ C13
\* C13: whenever a comparison result is shown, the number of unmatched
\* detected plots and the number of unmatched reference plots are both
\* among the figures presented.
ComparisonShown == store.sidebarTab = "compare" /\ IsSome(store.comparison)
C13_BothDirections ==
  ComparisonShown =>
    \A f \in {"unmatched_detected", "unmatched_basemap"} :
      \E c \in SummaryCards(store) :
        c.field = f /\ c.value = Val(store.comparison).summary[f]

\* ------------------------------------------------------------------ C14
\* C14: boundary editing ends only by cancel or by a successful save of the
\* edit: a step that leaves edit mode is cancelEditing or the delivery of a
\* successful update that carried the edited plot and its edited geometry;
\* a failed save keeps editingPlotId and editingGeometry; cancelEditing
\* sends no update.
EditEnds == IsSome(store.editingPlotId) /\ store'.editingPlotId = None
SavedBy(t) ==
  /\ t.op = "updatePlot" /\ t.phase = "ok"
  /\ CopiesIn(t, tasks') < CopiesIn(t, tasks)
  /\ t.plot = Val(store.editingPlotId)
  /\ Some(t.arg) = store.editingGeometry
EndsByCancelOrSave ==
  /\ EditEnds => (CancelEditing \/ \E t \in InFlight : SavedBy(t))
  /\ \A t \in InFlight :
       (Fails(t) /\ t.op = "updatePlot") =>
         /\ store'.editingPlotId = store.editingPlotId
         /\ store'.editingGeometry = store.editingGeometry
  /\ CancelEditing =>
       \A t \in BagToSet(tasks') :
         t.op = "updatePlot" => CopiesIn(t, tasks') <= CopiesIn(t, tasks)
C14_EndsByCancelOrSave == [][EndsByCancelOrSave]_vars

\* ------------------------------------------------------------------ C15
\* C15: while a boundary is edited the selection is locked: selectedPlotId
\* equals editingPlotId from startEditing until editing ends.
C15_SelectionLocked ==
  IsSome(store.editingPlotId) => store.selectedPlotId = store.editingPlotId

\* ------------------------------------------------------------------ C16
\* C16: whenever editingPlotId is non-null it is the id of a plot of
\* activeProject.plots, and editingGeometry is non-null exactly when
\* editingPlotId is non-null.
C16_EditedPlotExists ==
  /\ IsSome(store.editingPlotId) =>
       \E p \in ProjectPlots(store) : p.id = Val(store.editingPlotId)
  /\ IsSome(store.editingGeometry) <=> IsSome(store.editingPlotId)

\* ------------------------------------------------------------------ C17
\* C17: cancelling an edit restores the original geometry on the map:
\* cancelEditing clears editingPlotId and editingGeometry and sends no
\* update, and once its reload has settled, with no new edit begun, every
\* plot feature of the map shows the geometry of its plot in activeProject.
CancelSettles(t) ==
  /\ t.op = "fetchProject" /\ t.cont = "cancelEditing"
  /\ t.phase \in {"ok", "err"}
  /\ CopiesIn(t, tasks') < CopiesIn(t, tasks)
ShowsPersisted(st, v) ==
  \A f \in v.plotFeatures : \A p \in ProjectPlots(st) :
    p.id = f.id => f.geometry = p.geometry
CancelRestores ==
  /\ CancelEditing =>
       /\ store'.editingPlotId = None /\ store'.editingGeometry = None
       /\ Pending({"updatePlot"})' = Pending({"updatePlot"})
  /\ \A t \in InFlight :
       (CancelSettles(t) /\ store'.editingPlotId = None) =>
         ShowsPersisted(store', view')
C17_CancelRestores == [][CancelRestores]_vars

\* ------------------------------------------------------------------ C18
\* C18: once all requests of overlapping plot operations have settled,
\* activeProject equals the backend's latest state of the project.
C18_LatestProject ==
  (InFlight = {} /\ IsSome(store.activeProject)) =>
    /\ SrvHas(Val(store.activeProject).id)
    /\ Val(store.activeProject) = SrvProject(Val(store.activeProject).id)

\* ------------------------------------------------------------------ C19
\* C19: areaBoundary, whenever non-null, is the boundary of the selected
\* area; selecting another area clears it in the same step, and a response
\* for a previously selected area is never stored.
OwnBoundary ==
  IsSome(store.areaBoundary) =>
    /\ IsSome(store.selectedArea)
    /\ Val(store.areaBoundary).name = Val(store.selectedArea)
ClearedAtOnce ==
  store'.selectedArea # store.selectedArea => store'.areaBoundary = None
C19_OwnBoundary == []OwnBoundary /\ [][ClearedAtOnce]_vars

\* The boundary of the selected area is stored while the response to the
\* fetch for the previously selected area is still to be delivered.
C19_Witness ==
  /\ IsSome(store.areaBoundary)
  /\ \E t \in InFlight :
       /\ t.op = "fetchAreaBoundary" /\ t.phase = "ok" /\ t.cancelled
       /\ t.arg # Val(store.selectedArea)

\* ------------------------------------------------------------------ C20
\* C20: once the boundary of the selected area is stored, areaBoundary
\* keeps that boundary for as long as the same area remains selected,
\* also when the selected area is clicked again.
BoundaryKept ==
  (IsSome(store.areaBoundary) /\ store'.selectedArea = store.selectedArea) =>
    store'.areaBoundary = store.areaBoundary
C20_BoundaryKept == [][BoundaryKept]_vars

\* ------------------------------------------------------------------ C21
\* C21: the bbox of an auto-detect request is the bounding box of an area
\* boundary or a map viewport; a degenerate bbox is never sent to the
\* detection endpoint.
C21_NoDegenerateBbox ==
  \A t \in InFlight : t.op = "autoDetect" => t.arg.bbox # ZeroBbox

\* ------------------------------------------------------------------ C22
\* C22: for as long as viewMode is "schematic", the satellite base layer,
\* the WMS overlay and both CSIDC reference layers are hidden.
C22_SchematicHidesImagery ==
  store.viewMode = "schematic" =>
    /\ ~view.layers.baseTile
    /\ view.layers.wmsLayer # Some(TRUE)
    /\ ~view.layers.csidcRefLayer
    /\ ~view.layers.csidcRefVectorLayer

\* ------------------------------------------------------------------ C23
\* C23: a plot with is_active = false is neither drawn on the map nor
\* listed or counted in the Detected Plots panel; the panel, when open,
\* lists the plots the map has features of.
C23_NoInactivePlotShown ==
  /\ \A f \in view.plotFeatures : f.is_active
  /\ \A p \in ListedPlots(store) : p.is_active
  /\ PlotsPanel(store) =>
       /\ {p.id : p \in ListedPlots(store)} = {f.id : f \in view.plotFeatures}
       /\ TotalPlots(store) = Cardinality(view.plotFeatures)

====
